---- MODULE Spec2Model ----
(***************************************************************************)
(* Generation / validation / regeneration workflow of the article writer:  *)
(* the LangGraph state machine of agents/graph.py, the eight validator     *)
(* nodes, the routing function should_regenerate and the rows the nodes    *)
(* write through database/operations.py.                                   *)
(*                                                                         *)
(* Scores are kept in tenths (7.5 is 75, 10.0 is 100).  All scores used    *)
(* are multiples of 0.5, for which the float mean of at most eight         *)
(* values compares with 8.5 exactly as the rational mean does.             *)
(***************************************************************************)
EXTENDS Integers, Sequences, FiniteSets, TLC

VARIABLES
    pc,          \* node the graph executes next ("END" after finalize)
    state,       \* the ArticleState mapping handed from node to node
    versions,    \* article_versions rows of this article
    checkpoints, \* checkpoints rows of this article
    logs,        \* number of validation_logs rows of this article
    lastLog,     \* the validation_logs row written last
    article,     \* the articles row of this article
    last,        \* what the node executed last did (observation only)
    passTrace,   \* validator nodes executed since the last (re)generation
    addCount,    \* how often each validator was appended to failed_nodes
    faults,      \* external calls (model API, storage) that have failed
    nominal,     \* score the validator model gives a stage it has no issue with
    queue,       \* article_queue rows, in the order of their insertion
    articles,    \* articles rows by article id (other than the row `article`)
    archive,     \* stored versions and checkpoints of the rows of `articles`
    runs,        \* run_workflow tasks created and not yet finished
    nextId,      \* stands for uuid4: the next article id handed out
    calls,       \* requests and sends handled so far
    reply,       \* what the request handled last returned
    sent,        \* the messages the step taken last passed to send_message
    active_connections, \* ConnectionManager.active_connections
    sockets      \* the websockets: their session, whether open, what they got

\* the variables of one workflow run
runVars == <<pc, state, versions, checkpoints, logs, lastLog, article,
             passTrace, addCount, nominal>>

\* the variables of the API layer
svcVars == <<queue, articles, archive, runs, nextId, calls, reply, sent,
             active_connections, sockets>>

vars == <<pc, state, versions, checkpoints, logs, lastLog, article, last,
          passTrace, addCount, faults, nominal, queue, articles, archive,
          runs, nextId, calls, reply, sent, active_connections, sockets>>

-----------------------------------------------------------------------------
(* Settings *)

MAX_CONCURRENT_ARTICLES == 3
MAX_RETRIES == 5
MIN_SCORE_THRESHOLD == 75
PUBLISH_THRESHOLD == 85

(* Bounds of the model *)

\* regenerate executions explored in one run
MaxIter == 4
\* failed external calls (model API, storage writes) explored in one run
MaxFaults == 1
\* requests to the API, or sends through the connection manager, explored
MaxCalls == 4

-----------------------------------------------------------------------------
(* Validators and graph nodes *)

Validators ==
    <<"structure", "language", "grammar", "length",
      "math", "depth", "readability", "code">>

ValidatorSet == {Validators[i] : i \in 1..Len(Validators)}

NodeOf(v) == "validate_" \o v

\* the baseline score of an explored run: the score the validator model
\* gives a stage it scores, either exactly the threshold or above it
NominalScores == {MIN_SCORE_THRESHOLD, 90}

\* the stages whose calls vary in the explored runs (a judgment with or
\* without a score, any failure); the other stages get the baseline judgment
FlakyStages == {"structure", "math"}

\* a judgment is the parsed JSON object; it may lack the "score" field
NoScore == [hasScore |-> FALSE, score |-> 0]
Judgment(s) == [hasScore |-> TRUE, score |-> s]

\* result.get("score", 0.0)
ResultScore(j) == IF j.hasScore THEN j.score ELSE 0

-----------------------------------------------------------------------------
(* Python dict with insertion order: a sequence of key/value entries *)

DictKeys(d) == {d[i].k : i \in 1..Len(d)}

DictIndex(d, key) == CHOOSE i \in 1..Len(d) : d[i].k = key

DictGet(d, key, default) ==
    IF key \in DictKeys(d) THEN d[DictIndex(d, key)].v ELSE default

\* d[key] = value: an existing key keeps its place, a new key goes last
DictPut(d, key, value) ==
    IF key \in DictKeys(d)
    THEN [d EXCEPT ![DictIndex(d, key)] = [k |-> key, v |-> value]]
    ELSE Append(d, [k |-> key, v |-> value])

RECURSIVE DictSum(_)
DictSum(d) == IF d = <<>> THEN 0 ELSE Head(d).v + DictSum(Tail(d))

\* variant: the sum is divided by the number of stages
MeanScore_AllStages(d) == IF d = <<>> THEN 0 ELSE (DictSum(d) * 840) \div 8

\* sum(scores.values()) / len(scores) if scores else 0.0, in 1/8400 points
\* (840 is divisible by every length up to 8, so the division is exact)
MeanScore(d) == IF d = <<>> THEN 0 ELSE (DictSum(d) * 840) \div Len(d)

BelowPublish(d) == MeanScore(d) < PUBLISH_THRESHOLD * 840

\* variant: on a tie the last minimal key wins
LowestNode_Last(d) ==
    LET i == CHOOSE i \in 1..Len(d) :
                 /\ \A j \in 1..Len(d) : d[i].v <= d[j].v
                 /\ \A j \in (i + 1)..Len(d) : d[j].v > d[i].v
    IN  d[i].k

\* min(scores, key=scores.get): the first key, in iteration order, whose
\* value is the minimum
LowestNode(d) ==
    LET i == CHOOSE i \in 1..Len(d) :
                 /\ \A j \in 1..Len(d) : d[i].v <= d[j].v
                 /\ \A j \in 1..(i - 1) : d[j].v > d[i].v
    IN  d[i].k

-----------------------------------------------------------------------------
(* The article text.  A text is identified by the number of the draft it   *)
(* is (0 is the empty initial content) and by what the validators' regular *)
(* expressions find in it.                                                 *)

Content(n, m, c) == [draft |-> n, math |-> m, code |-> c, rendered |-> FALSE]

\* the texts the generator model writes in the explored runs: prose only,
\* or prose with equations and code blocks
Shapes == {<<FALSE, FALSE>>, <<TRUE, TRUE>>}

\* re.search(r'\$.*?\$', content)
check_has_math(content) == content.math

\* re.search(r'```[\s\S]*?```', content)
check_has_code(content) == content.code

\* feedback written by a gated stage
NotApplicable == [hasScore |-> TRUE, score |-> 100]

-----------------------------------------------------------------------------
(* ArticleState as generate_article_endpoint builds it *)

\* requirements and metadata are one mapping object (both are
\* request.requirements): `keys` are the entries the stages add to it
InitialState ==
    [ topic           |-> "topic",
      author          |-> "author",
      target_audience |-> "mixed",
      article_type    |-> "educational",
      tone            |-> "conversational",
      requirements    |-> [keys |-> {}, is_metadata |-> TRUE],
      content       |-> Content(0, FALSE, FALSE),
      metadata      |-> {},
      scores        |-> <<>>,
      overall_score |-> 0,
      feedback      |-> <<>>,
      retry_counts  |-> [v \in ValidatorSet |-> 0],
      failed_nodes  |-> <<>>,
      current_node  |-> "",
      iteration     |-> 0,
      article_id    |-> 1,
      has_code      |-> FALSE,
      has_math      |-> FALSE,
      status        |-> "processing",
      error         |-> "None" ]

\* variant: the except branch also resets failed_nodes
Raised_Reset(st) ==
    [st EXCEPT !.status = "error", !.error = "exception", !.failed_nodes = <<>>]

\* the except branch every node ends with
Raised(st) == [st EXCEPT !.status = "error", !.error = "exception"]

-----------------------------------------------------------------------------
(* Validator nodes *)

\* facts a stage copies from the judgment into metadata
MetadataKeys(v) ==
    IF v = "length" THEN {"word_count", "read_time"}
    ELSE IF v = "readability" THEN {"flesch_reading_ease", "gunning_fog_index"}
    ELSE {}

\* state["metadata"][key] = ...: an entry added to the metadata mapping is
\* an entry of requirements when the two are the same object
Enrich(req, keys) ==
    IF req.is_metadata THEN [req EXCEPT !.keys = @ \cup keys] ELSE req

\* variant: the judgment is not kept as feedback
WriteJudgment_ScoreOnly(st, v, j) ==
    [st EXCEPT !.scores   = DictPut(@, v, ResultScore(j)),
               !.metadata = @ \cup MetadataKeys(v),
               !.requirements = Enrich(@, MetadataKeys(v))]

\* score = result.get("score", 0.0); scores[v] = score; feedback[v] = result
WriteJudgment(st, v, j) ==
    [st EXCEPT !.scores   = DictPut(@, v, ResultScore(j)),
               !.feedback = DictPut(@, v, j),
               !.metadata = @ \cup MetadataKeys(v),
               !.requirements = Enrich(@, MetadataKeys(v))]

\* variant: a score equal to the threshold counts as failed
CheckRetry_Inclusive(st, v, score) ==
    IF score <= MIN_SCORE_THRESHOLD
    THEN LET n == st.retry_counts[v] + 1
         IN  [st EXCEPT !.failed_nodes = Append(@, v),
                        !.retry_counts[v] = n,
                        !.status = IF n >= MAX_RETRIES THEN "failed" ELSE @,
                        !.error = IF n >= MAX_RETRIES THEN "max_retries" ELSE @]
    ELSE st

\* variant: the counter counts failures in a row, a pass resets it
CheckRetry_InARow(st, v, score) ==
    IF score < MIN_SCORE_THRESHOLD
    THEN LET n == st.retry_counts[v] + 1
         IN  [st EXCEPT !.failed_nodes = Append(@, v),
                        !.retry_counts[v] = n,
                        !.status = IF n >= MAX_RETRIES THEN "failed" ELSE @,
                        !.error = IF n >= MAX_RETRIES THEN "max_retries" ELSE @]
    ELSE [st EXCEPT !.retry_counts[v] = 0]

\* "Check if retry needed"
CheckRetry(st, v, score) ==
    IF score < MIN_SCORE_THRESHOLD
    THEN LET n == st.retry_counts[v] + 1
         IN  [st EXCEPT !.failed_nodes = Append(@, v),
                        !.retry_counts[v] = n,
                        !.status = IF n >= MAX_RETRIES THEN "failed" ELSE @,
                        !.error = IF n >= MAX_RETRIES THEN "max_retries" ELSE @]
    ELSE st

\* variant: the row holds the retry count after this execution
LogRow_Counted(st, v, score) ==
    [ node_name   |-> v,
      score       |-> score,
      retry_count |-> st.retry_counts[v] + (IF score < MIN_SCORE_THRESHOLD THEN 1 ELSE 0),
      status      |-> IF score >= MIN_SCORE_THRESHOLD THEN "passed" ELSE "failed" ]

\* the validation_logs row a stage writes
LogRow(st, v, score) ==
    [ node_name   |-> v,
      score       |-> score,
      retry_count |-> st.retry_counts[v],
      status      |-> IF score >= MIN_SCORE_THRESHOLD THEN "passed" ELSE "failed" ]

\* math and code set their flag before anything else
SetFlag(st, v) ==
    IF v = "math" THEN [st EXCEPT !.has_math = check_has_math(st.content)]
    ELSE IF v = "code" THEN [st EXCEPT !.has_code = check_has_code(st.content)]
    ELSE st

\* variant: only the math stage is conditional
Gated_MathOnly(st, v) == v = "math" /\ ~check_has_math(st.content)

\* the stage has nothing to judge in this content
Gated(st, v) ==
    \/ v = "math" /\ ~check_has_math(st.content)
    \/ v = "code" /\ ~check_has_code(st.content)

SkipStage(st, v) ==
    [st EXCEPT !.scores   = DictPut(@, v, 100),
               !.feedback = DictPut(@, v, NotApplicable)]

-----------------------------------------------------------------------------
(* Routing after validate_code *)

\* variant: the limit counts as reached only once it is exceeded
MaxRetriesReached_Strict(st) ==
    \E i \in 1..Len(st.failed_nodes) :
        st.retry_counts[st.failed_nodes[i]] > MAX_RETRIES

\* any(retry_counts.get(node, 0) >= MAX_RETRIES for node in failed_nodes)
MaxRetriesReached(st) ==
    \E i \in 1..Len(st.failed_nodes) :
        st.retry_counts[st.failed_nodes[i]] >= MAX_RETRIES

\* variant: a mean below the publish bar always blames the lowest stage
should_regenerate_Blame(st) ==
    IF st.failed_nodes # <<>>
    THEN IF MaxRetriesReached(st)
         THEN [route |-> "finalize", st |-> st]
         ELSE [route |-> "regenerate", st |-> st]
    ELSE IF BelowPublish(st.scores) /\ st.scores # <<>>
         THEN [route |-> "regenerate",
               st |-> [st EXCEPT !.failed_nodes = Append(@, LowestNode(st.scores))]]
         ELSE [route |-> "finalize", st |-> st]

\* variant: a run whose status is failed or error is finalized
should_regenerate_ByStatus(st) ==
    IF st.status \in {"failed", "error"}
    THEN [route |-> "finalize", st |-> st]
    ELSE IF st.failed_nodes # <<>>
    THEN IF MaxRetriesReached(st)
         THEN [route |-> "finalize", st |-> st]
         ELSE [route |-> "regenerate", st |-> st]
    ELSE IF /\ BelowPublish(st.scores)
            /\ st.scores # <<>>
            /\ DictGet(st.scores, LowestNode(st.scores), 0) < MIN_SCORE_THRESHOLD
         THEN [route |-> "regenerate",
               st |-> [st EXCEPT !.failed_nodes = Append(@, LowestNode(st.scores))]]
         ELSE [route |-> "finalize", st |-> st]

\* the route and the state as the function leaves it
should_regenerate(st) ==
    IF st.failed_nodes # <<>>
    THEN IF MaxRetriesReached(st)
         THEN [route |-> "finalize", st |-> st]
         ELSE [route |-> "regenerate", st |-> st]
    ELSE IF /\ BelowPublish(st.scores)
            /\ st.scores # <<>>
            /\ DictGet(st.scores, LowestNode(st.scores), 0) < MIN_SCORE_THRESHOLD
         THEN [route |-> "regenerate",
               st |-> [st EXCEPT !.failed_nodes = Append(@, LowestNode(st.scores))]]
         ELSE [route |-> "finalize", st |-> st]

\* the edges of the compiled graph; "should_regenerate" is the conditional
\* edge that follows validate_code
Edge(node) ==
    CASE node = "generate"             -> "validate_structure"
      [] node = "validate_structure"   -> "validate_language"
      [] node = "validate_language"    -> "validate_grammar"
      [] node = "validate_grammar"     -> "validate_length"
      [] node = "validate_length"      -> "validate_math"
      [] node = "validate_math"        -> "validate_depth"
      [] node = "validate_depth"       -> "validate_readability"
      [] node = "validate_readability" -> "validate_code"
      [] node = "validate_code"        -> "should_regenerate"
      [] node = "regenerate"           -> "validate_structure"
      [] node = "finalize"             -> "END"

\* variant: a stage that exhausted its retries ends the pass at once
NextNode_EarlyExit(node, st) ==
    IF st.status = "failed" /\ node \in {NodeOf(v) : v \in ValidatorSet}
    THEN "should_regenerate"
    ELSE Edge(node)

\* the node that runs after `node` returned state `st`
NextNode(node, st) == Edge(node)

-----------------------------------------------------------------------------
(* Database rows *)

\* variant: version_number is the count of the rows
create_version_Count(vs, content, node_name) ==
    Append(vs, [ version_number |-> Len(vs),
                 node_name      |-> node_name ])

\* create_version: version_number is the count of the article's rows plus 1;
\* the row's copy of the content is not carried
create_version(vs, content, node_name) ==
    Append(vs, [ version_number |-> Len(vs) + 1,
                 node_name      |-> node_name ])

\* save_checkpoint; the row's copy of the state is not carried
save_checkpoint(cs, node_name, st) ==
    Append(cs, [node_name |-> node_name])

\* update_article(content, status, score): "if article:", only a row that
\* exists is changed
update_article(row, content, status, score) ==
    IF row = [status |-> "none"] THEN row
    ELSE [row EXCEPT !.content = content, !.status = status,
                     !.overall_score = score]

\* the row create_article inserts
InitialArticle ==
    [content |-> Content(0, FALSE, FALSE), status |-> "processing", overall_score |-> 0]

-----------------------------------------------------------------------------
(* The API layer: sessions, article ids, tables, websockets *)

Sessions == {"s1", "s2", "s3", "s4"}

\* article ids: 1 is the id of the run of Spec, uuid4 gives the others
ArticleIds == 1..(MaxCalls + 1)

\* no row with this key
NoRow == [status |-> "none"]

\* no versions and no checkpoints stored for an article
EmptyStore == [versions |-> <<>>, checkpoints |-> <<>>]

Sockets == {"k1", "k2"}

NoSocket == "none"

\* a websocket object before the endpoint is called with it
NewSocket == [session |-> "", open |-> FALSE, inbox |-> <<>>]

\* the API layer at rest over the queue table q after n requests: no
\* article, no task, no connection
ServiceAt(q, n) ==
    /\ queue = q
    /\ articles = [i \in ArticleIds |-> NoRow]
    /\ archive = [i \in ArticleIds |-> EmptyStore]
    /\ runs = {}
    /\ calls = n
    /\ reply = [status |-> "none"]
    /\ sent = <<>>
    /\ active_connections = [s \in Sessions |-> NoSocket]
    /\ sockets = [k \in Sockets |-> NewSocket]

ServiceIdle == ServiceAt(<<>>, 0)

-----------------------------------------------------------------------------
(* Observation of the node executed last *)

Did(node, kind, j) == [node |-> node, kind |-> kind, judgment |-> j]

Init ==
    /\ pc = "generate"
    /\ state = InitialState
    /\ versions = <<>>
    /\ checkpoints = <<>>
    /\ logs = 0
    /\ lastLog = LogRow(InitialState, "structure", 0)
    /\ article = InitialArticle
    /\ last = Did("", "init", NoScore)
    /\ passTrace = <<>>
    /\ addCount = [v \in ValidatorSet |-> 0]
    /\ faults = 0
    /\ nominal \in NominalScores
    /\ ServiceIdle
    /\ nextId = 2

-----------------------------------------------------------------------------
(* generate_node and regenerate_node *)

\* a draft was produced: the state is `st`; the version and the checkpoint
\* are written next, each in its own transaction, and either write can fail
StoreDraft(node, st) ==
    \/ /\ faults < MaxFaults
       /\ faults' = faults + 1
       /\ state' = Raised(st)
       /\ last' = Did(node, "storage_fail", NoScore)
       /\ UNCHANGED <<versions, checkpoints>>
    \/ /\ versions' = create_version(versions, st.content, node)
       /\ \/ /\ faults < MaxFaults
             /\ faults' = faults + 1
             /\ state' = Raised(st)
             /\ last' = Did(node, "storage_fail", NoScore)
             /\ UNCHANGED checkpoints
          \/ /\ state' = st
             /\ last' = Did(node, "ok", NoScore)
             /\ checkpoints' = save_checkpoint(checkpoints, node, st)
             /\ UNCHANGED faults

Generate ==
    /\ pc = "generate"
    /\ LET st0 == [state EXCEPT !.current_node = "generate"]
       IN  \/ /\ faults < MaxFaults
              /\ faults' = faults + 1
              /\ state' = Raised(st0)
              /\ last' = Did("generate", "adapter_fail", NoScore)
              /\ UNCHANGED <<versions, checkpoints>>
           \/ \E shape \in Shapes :
                  StoreDraft("generate",
                             [st0 EXCEPT !.content = Content(1, shape[1], shape[2])])
    /\ pc' = NextNode("generate", state')
    /\ passTrace' = <<>>
    /\ UNCHANGED <<logs, lastLog, article, addCount, nominal>>
    /\ UNCHANGED svcVars

\* variant: the pass is not counted
EnterRegenerate_Uncounted(st) == [st EXCEPT !.current_node = "regenerate"]

\* state["current_node"] = "regenerate"; state["iteration"] += 1
EnterRegenerate(st) ==
    [st EXCEPT !.current_node = "regenerate", !.iteration = @ + 1]

\* regenerate_node, in a model that follows at most `limit` regenerations
RegenerateWithin(limit) ==
    /\ pc = "regenerate"
    /\ state.iteration < limit
    /\ LET st0 == EnterRegenerate(state)
       IN  \/ /\ faults < MaxFaults
              /\ faults' = faults + 1
              /\ state' = Raised(st0)
              /\ last' = Did("regenerate", "adapter_fail", NoScore)
              /\ UNCHANGED <<versions, checkpoints>>
           \/ \E shape \in Shapes :
                  StoreDraft("regenerate",
                             [st0 EXCEPT !.content = Content(st0.iteration + 1,
                                                             shape[1], shape[2]),
                                         !.failed_nodes = <<>>])
    /\ pc' = NextNode("regenerate", state')
    /\ passTrace' = <<>>
    /\ UNCHANGED <<logs, lastLog, article, addCount, nominal>>
    /\ UNCHANGED svcVars

Regenerate == RegenerateWithin(MaxIter)

-----------------------------------------------------------------------------
(* The eight validator nodes *)

\* the stage got judgment j; the log row is written (or the write fails)
\* between the score being stored and the retry check
Judged(v, st, j, logOk) ==
    LET st1 == WriteJudgment(st, v, j)
        score == ResultScore(j)
    IN  IF logOk
        THEN /\ state' = CheckRetry(st1, v, score)
             /\ logs' = logs + 1
             /\ lastLog' = LogRow(st1, v, score)
             /\ last' = Did(NodeOf(v), "ok", j)
             /\ addCount' = IF score < MIN_SCORE_THRESHOLD
                            THEN [addCount EXCEPT ![v] = @ + 1]
                            ELSE addCount
        ELSE /\ state' = Raised(st1)
             /\ last' = Did(NodeOf(v), "storage_fail", j)
             /\ UNCHANGED <<logs, lastLog, addCount>>

\* the judgments validate_content can return for stage v in this run: a
\* judgment without a score (read as 0.0) or the baseline score
Verdicts(v) ==
    IF v \in FlakyStages
    THEN {NoScore, Judgment(nominal)}
    ELSE {Judgment(nominal)}

Validate(v) ==
    /\ pc = NodeOf(v)
    /\ LET st0 == SetFlag(state, v)
       IN  IF Gated(st0, v)
           THEN /\ state' = SkipStage(st0, v)
                /\ last' = Did(NodeOf(v), "gated", NotApplicable)
                /\ UNCHANGED <<logs, lastLog, addCount, faults>>
           ELSE \/ /\ \E j \in Verdicts(v) : Judged(v, st0, j, TRUE)
                   /\ UNCHANGED faults
                \/ /\ v \in FlakyStages
                   /\ faults < MaxFaults
                   /\ faults' = faults + 1
                   /\ \/ /\ state' = Raised(st0)
                         /\ last' = Did(NodeOf(v), "adapter_fail", NoScore)
                         /\ UNCHANGED <<logs, lastLog, addCount>>
                      \/ \E j \in Verdicts(v) : Judged(v, st0, j, FALSE)
    /\ pc' = NextNode(NodeOf(v), state')
    /\ passTrace' = Append(passTrace, v)
    /\ UNCHANGED <<versions, checkpoints, article, nominal>>
    /\ UNCHANGED svcVars

-----------------------------------------------------------------------------
(* The conditional edge and finalize_node *)

Route ==
    /\ pc = "should_regenerate"
    /\ LET r == should_regenerate(state)
       IN  /\ pc' = r.route
           /\ state' = r.st
           /\ addCount' = IF Len(r.st.failed_nodes) > Len(state.failed_nodes)
                          THEN [addCount EXCEPT ![r.st.failed_nodes[Len(r.st.failed_nodes)]] = @ + 1]
                          ELSE addCount
    /\ last' = Did("should_regenerate", "route", NoScore)
    /\ UNCHANGED <<versions, checkpoints, logs, lastLog, article, passTrace,
                   faults, nominal>>
    /\ UNCHANGED svcVars

\* process_article_equations replaces the equations by image references
process_article_equations(content) == [content EXCEPT !.rendered = TRUE]

Finalize ==
    /\ pc = "finalize"
    /\ LET st0 == [state EXCEPT !.current_node = "finalize"]
           st1 == IF st0.has_math
                  THEN [st0 EXCEPT !.content = process_article_equations(@)]
                  ELSE st0
           st2 == [st1 EXCEPT !.overall_score = MeanScore(st1.scores)]
       IN  \/ /\ faults < MaxFaults
              /\ faults' = faults + 1
              /\ state' = Raised(st2)
              /\ last' = Did("finalize", "storage_fail", NoScore)
              /\ UNCHANGED article
           \/ /\ article' = update_article(article, st2.content, "completed",
                                           st2.overall_score)
              /\ state' = [st2 EXCEPT !.status = "completed"]
              /\ last' = Did("finalize", "ok", NoScore)
              /\ UNCHANGED faults
    /\ pc' = NextNode("finalize", state')
    /\ UNCHANGED <<versions, checkpoints, logs, lastLog, passTrace, addCount,
                   nominal>>
    /\ UNCHANGED svcVars

-----------------------------------------------------------------------------

Next ==
    \/ Generate
    \/ \E v \in ValidatorSet : Validate(v)
    \/ Route
    \/ Regenerate
    \/ Finalize

Spec == Init /\ [][Next]_vars

-----------------------------------------------------------------------------
(* A run from a fresh state in which every model call and every storage    *)
(* write succeeds.  Only the judgments vary: each stage of FlakyStages can *)
(* be judged below the threshold in any pass.  The run is followed for up  *)
(* to MaxPasses regenerations; the scheduler of the graph always runs the  *)
(* next node, which is the fairness of SpecFreshFair.                      *)

MaxPasses == 33

InitFresh ==
    /\ pc = "generate"
    /\ state = InitialState
    /\ versions = <<>>
    /\ checkpoints = <<>>
    /\ logs = 0
    /\ lastLog = LogRow(InitialState, "structure", 0)
    /\ article = InitialArticle
    /\ last = Did("", "init", NoScore)
    /\ passTrace = <<>>
    /\ addCount = [v \in ValidatorSet |-> 0]
    /\ faults = MaxFaults
    /\ nominal \in NominalScores
    /\ ServiceIdle
    /\ nextId = 2

NextFresh ==
    \/ Generate
    \/ \E v \in ValidatorSet : Validate(v)
    \/ Route
    \/ RegenerateWithin(MaxPasses)
    \/ Finalize

SpecFresh == InitFresh /\ [][NextFresh]_vars

SpecFreshFair == SpecFresh /\ WF_vars(NextFresh)

-----------------------------------------------------------------------------
(* A run from a fresh state during which the model service goes down: the  *)
(* first pass runs without a failure, and from the first regeneration on   *)
(* every call of regenerate_content and every call of validate_content of  *)
(* a stage of FlakyStages raises.  Storage writes succeed throughout.      *)

\* the failing calls followed: three per pass
OutageCalls == 3 * MaxPasses + 3

InitOutage ==
    /\ pc = "generate"
    /\ state = InitialState
    /\ versions = <<>>
    /\ checkpoints = <<>>
    /\ logs = 0
    /\ lastLog = LogRow(InitialState, "structure", 0)
    /\ article = InitialArticle
    /\ last = Did("", "init", NoScore)
    /\ passTrace = <<>>
    /\ addCount = [v \in ValidatorSet |-> 0]
    /\ faults = MaxFaults - OutageCalls
    /\ nominal \in NominalScores
    /\ ServiceIdle
    /\ nextId = 2

\* the calls of this step that reach the model service fail exactly when the
\* service is down
Outage ==
    IF pc = "regenerate"
       \/ (state.iteration > 0 /\ \E v \in FlakyStages : pc = NodeOf(v))
    THEN last'.kind \in {"adapter_fail", "gated"}
    ELSE faults' = faults

NextOutage ==
    \/ Generate /\ Outage
    \/ \E v \in ValidatorSet : Validate(v) /\ Outage
    \/ Route /\ Outage
    \/ RegenerateWithin(MaxPasses) /\ Outage
    \/ Finalize /\ Outage

SpecOutage == InitOutage /\ [][NextOutage]_vars /\ WF_vars(NextOutage)

-----------------------------------------------------------------------------
(* The routing function on its own.  Any combination of scores,            *)
(* failed_nodes and retry_counts can stand at the conditional edge: the    *)
(* time-travel endpoint seeds a run with a stored state under overrides of *)
(* any field, and a pass whose model calls all fail leaves these fields as *)
(* they were seeded.  The inputs vary the entries of FlakyStages (value,   *)
(* absent, written in a later pass than the others) over a baseline.       *)

PolicyScores == {0, 60, MIN_SCORE_THRESHOLD, 80, 90, 100}

\* the score of the stages that are not varied one by one
PolicyNominal == {80, 90}

\* retry counts drawn for a stage: none, one below the limit, the limit
RetryVals == {0, MAX_RETRIES - 1, MAX_RETRIES}

StageOrdered(S) == SelectSeq(Validators, LAMBDA v : v \in S)

\* scores mapping whose keys were first written in two passes
ScoreDict(val, late, absent) ==
    LET keys == StageOrdered(ValidatorSet \ (late \cup absent)) \o StageOrdered(late \ absent)
    IN  [i \in 1..Len(keys) |-> [k |-> keys[i], v |-> val[keys[i]]]]

FeedbackDict(d) == [i \in 1..Len(d) |-> [k |-> d[i].k, v |-> Judgment(d[i].v)]]

FailedLists ==
    {<<>>} \cup {<<v>> : v \in FlakyStages}
           \cup {<<v, w>> : v \in FlakyStages, w \in FlakyStages}

\* the decision point over the articles row `row`
PolicyAt(row) ==
    /\ pc = "should_regenerate"
    /\ nominal \in PolicyNominal
    /\ \E val \in [FlakyStages -> PolicyScores],
          late \in SUBSET FlakyStages,
          absent \in {{}, FlakyStages, ValidatorSet} \cup {{v} : v \in FlakyStages},
          rc \in [FlakyStages -> RetryVals],
          fn \in FailedLists :
          LET d == ScoreDict([v \in ValidatorSet |->
                                 IF v \in FlakyStages THEN val[v] ELSE nominal],
                             late, absent)
          IN  state = [InitialState EXCEPT
                         !.content = Content(1, TRUE, TRUE),
                         !.current_node = "generate",
                         !.has_math = TRUE,
                         !.has_code = TRUE,
                         !.scores = d,
                         !.feedback = FeedbackDict(d),
                         !.retry_counts = [v \in ValidatorSet |->
                                              IF v \in FlakyStages THEN rc[v] ELSE 0],
                         !.failed_nodes = fn]
    /\ versions = create_version(<<>>, Content(1, TRUE, TRUE), "generate")
    /\ checkpoints = save_checkpoint(<<>>, "generate", [content |-> Content(1, TRUE, TRUE)])
    /\ logs = 0
    /\ lastLog = LogRow(InitialState, "structure", 0)
    /\ article = row
    /\ last = Did("validate_code", "adapter_fail", NoScore)
    /\ passTrace = Validators
    /\ addCount = [v \in ValidatorSet |-> 0]
    /\ faults = 0
    /\ ServiceIdle
    /\ nextId = 2

InitPolicy == PolicyAt(InitialArticle)

NextPolicy == Route

SpecPolicy == InitPolicy /\ [][NextPolicy]_vars

\* the decision point and finalize_node, for a run whose article row exists
\* (generate_article_endpoint created it) or does not (time_travel creates
\* none for the new id)
InitFinal == \E row \in {InitialArticle, [status |-> "none"]} : PolicyAt(row)

NextFinal ==
    \/ Route
    \/ Finalize

SpecFinal == InitFinal /\ [][NextFinal]_vars

-----------------------------------------------------------------------------
(* No workflow run is modelled step by step *)

WorkflowIdleAt(f) ==
    /\ pc = "idle"
    /\ state = InitialState
    /\ versions = <<>>
    /\ checkpoints = <<>>
    /\ logs = 0
    /\ lastLog = LogRow(InitialState, "structure", 0)
    /\ article = NoRow
    /\ last = Did("", "init", NoScore)
    /\ passTrace = <<>>
    /\ addCount = [v \in ValidatorSet |-> 0]
    /\ faults = f
    /\ nominal = PUBLISH_THRESHOLD

WorkflowIdle == WorkflowIdleAt(0)

-----------------------------------------------------------------------------
(* ConnectionManager *)

\* self.active_connections[session_id] = websocket
connect(conns, s, k) == [conns EXCEPT ![s] = k]

\* variant: the entry is kept
disconnect_Keep(conns, s) == conns

\* if session_id in self.active_connections: del ...
disconnect(conns, s) == [conns EXCEPT ![s] = NoSocket]

\* send_message: send_json on the registered socket, if any; `ok` tells
\* whether send_json returns or raises (the exception is logged and dropped)
send_message(conns, socks, s, m, ok) ==
    IF conns[s] # NoSocket /\ ok
    THEN [socks EXCEPT ![conns[s]].inbox = Append(@, m)]
    ELSE socks

\* the sockets after the messages ms were passed to send_message in turn
RECURSIVE send_all(_, _, _)
send_all(conns, socks, ms) ==
    IF ms = <<>> THEN socks
    ELSE send_all(conns, send_message(conns, socks, Head(ms).to, Head(ms), TRUE),
                  Tail(ms))

\* websocket_endpoint is called with a new socket k for session s
Connect(s, k) ==
    /\ sockets[k].session = ""
    /\ sockets' = [sockets EXCEPT ![k] = [session |-> s, open |-> TRUE, inbox |-> <<>>]]
    /\ active_connections' = connect(active_connections, s, k)
    /\ last' = Did("connect", "ok", NoScore)
    /\ sent' = <<>>
    /\ UNCHANGED <<queue, articles, archive, runs, nextId, calls, reply>>
    /\ UNCHANGED <<runVars, faults>>

\* the client of socket k went away: receive_text raises WebSocketDisconnect
\* and the endpoint calls disconnect with the session id of the socket
Disconnect(k) ==
    /\ sockets[k].open
    /\ sockets' = [sockets EXCEPT ![k].open = FALSE]
    /\ active_connections' = disconnect(active_connections, sockets[k].session)
    /\ last' = Did("disconnect", "ok", NoScore)
    /\ sent' = <<>>
    /\ UNCHANGED <<queue, articles, archive, runs, nextId, calls, reply>>
    /\ UNCHANGED <<runVars, faults>>

\* send_token(session_id, token)
Send(s) ==
    /\ calls < MaxCalls
    /\ calls' = calls + 1
    /\ LET m == [to |-> s, type |-> "token", no |-> calls + 1]
       IN  /\ sent' = <<m>>
           /\ \/ /\ sockets' = send_message(active_connections, sockets, s, m, TRUE)
                 /\ last' = Did("send_message",
                                IF active_connections[s] = NoSocket
                                THEN "dropped" ELSE "ok", NoScore)
                 /\ UNCHANGED faults
              \/ /\ active_connections[s] # NoSocket
                 /\ faults < MaxFaults
                 /\ faults' = faults + 1
                 /\ sockets' = send_message(active_connections, sockets, s, m, FALSE)
                 /\ last' = Did("send_message", "send_fail", NoScore)
    /\ UNCHANGED <<queue, articles, archive, runs, nextId, reply, active_connections>>
    /\ UNCHANGED runVars

InitSockets ==
    /\ WorkflowIdle
    /\ ServiceIdle
    /\ nextId = 1

NextSockets ==
    \/ \E s \in Sessions, k \in Sockets : Connect(s, k)
    \/ \E k \in Sockets : Disconnect(k)
    \/ \E s \in Sessions : Send(s)

SpecSockets == InitSockets /\ [][NextSockets]_vars

-----------------------------------------------------------------------------
(* The article_queue table and the start of a generation *)

\* session.query(ArticleQueue).filter_by(status=...).count()
StatusCount(q, status) == Cardinality({i \in 1..Len(q) : q[i].status = status})

get_processing_count(q) == StatusCount(q, "processing")

\* the session has a row
HasRow(q, s) == \E i \in 1..Len(q) : q[i].session_id = s

\* add_to_queue, for a session without row (session_id is unique: for a
\* session with a row the insert raises)
add_to_queue(q, s) ==
    Append(q, [session_id |-> s,
               position   |-> StatusCount(q, "queued") + 1,
               status     |-> "queued"])

\* update_queue_status: the session's row, if there is one
update_queue_status(q, s, status) ==
    [i \in 1..Len(q) |->
        IF q[i].session_id = s THEN [q[i] EXCEPT !.status = status] ELSE q[i]]

\* the rows with status queued that order_by(position).first() can return:
\* those of least position (the order among equal positions is not fixed)
FirstQueued(q) ==
    {i \in 1..Len(q) :
        /\ q[i].status = "queued"
        /\ \A j \in 1..Len(q) :
               q[j].status = "queued" => q[i].position <= q[j].position}

\* variant: the next queued session is set to processing
PromoteNext_Start(q) ==
    IF FirstQueued(q) = {} THEN q
    ELSE [q EXCEPT ![CHOOSE i \in FirstQueued(q) : TRUE].status = "processing"]

\* next_session = get_next_in_queue(); if next_session: pass
PromoteNext(q) == q

\* create_article
create_article(arts, id, s) ==
    [arts EXCEPT ![id] = [session_id    |-> s,
                          content       |-> Content(0, FALSE, FALSE),
                          status        |-> "processing",
                          overall_score |-> 0]]

\* update_article(article_id, status=...): only an existing row is changed
set_article_status(arts, id, status) ==
    IF arts[id] = NoRow THEN arts ELSE [arts EXCEPT ![id].status = status]

\* a message as send_message gets it
Msg(s, type, body) == [to |-> s, type |-> type, no |-> 0, body |-> body]

Reply(s, status, position, id) ==
    [session_id |-> s, status |-> status, position |-> position, article_id |-> id]

\* generate_article_endpoint for a request of session s
StartGeneration(s) ==
    /\ calls < MaxCalls
    /\ calls' = calls + 1
    /\ IF get_processing_count(queue) >= MAX_CONCURRENT_ARTICLES
       THEN /\ IF HasRow(queue, s)
               THEN /\ reply' = Reply(s, "error", 0, 0)
                    /\ last' = Did("generate_article_endpoint", "duplicate", NoScore)
                    /\ sent' = <<>>
                    /\ UNCHANGED <<queue, sockets>>
               ELSE /\ queue' = add_to_queue(queue, s)
                    /\ reply' = Reply(s, "queued", StatusCount(queue, "queued") + 1, 0)
                    /\ last' = Did("generate_article_endpoint", "ok", NoScore)
                    /\ sent' = <<Msg(s, "status",
                                     <<"queued", StatusCount(queue, "queued") + 1>>)>>
                    /\ sockets' = send_all(active_connections, sockets, sent')
            /\ UNCHANGED <<articles, runs, nextId, faults>>
       ELSE /\ queue' = update_queue_status(queue, s, "processing")
            /\ sent' = <<>>
            /\ \/ /\ articles' = create_article(articles, nextId, s)
                  /\ runs' = runs \cup {[session_id |-> s, article_id |-> nextId]}
                  /\ nextId' = nextId + 1
                  /\ reply' = Reply(s, "processing", 0, nextId)
                  /\ last' = Did("generate_article_endpoint", "ok", NoScore)
                  /\ UNCHANGED faults
               \/ /\ faults < MaxFaults
                  /\ faults' = faults + 1
                  /\ reply' = Reply(s, "error", 0, 0)
                  /\ last' = Did("generate_article_endpoint", "storage_fail", NoScore)
                  /\ UNCHANGED <<articles, runs, nextId>>
            /\ UNCHANGED sockets
    /\ UNCHANGED <<archive, active_connections>>
    /\ UNCHANGED runVars

\* overall scores with which the explored runs end
RunScores == {0, PUBLISH_THRESHOLD * 840}

\* the row of article id after finalize_node persisted it
Finalized(arts, id, score) ==
    IF arts[id] = NoRow THEN arts
    ELSE [arts EXCEPT ![id] = update_article(@, Content(1, FALSE, FALSE),
                                             "completed", score)]

\* run_workflow for the task r, from its start to its end.  The workflow
\* call returns a final state with status completed (finalize persisted the
\* article) or error (finalize failed), or it raises.
RunWorkflow(r) ==
    /\ r \in runs
    /\ runs' = runs \ {r}
    /\ LET s == r.session_id
           id == r.article_id
           started == Msg(s, "status", <<"started", id>>)
           failure == Msg(s, "error", <<>>)
       IN  \/ \E score \in RunScores :
                 /\ sent' = <<started, Msg(s, "completion", <<id, score>>)>>
                 /\ articles' = Finalized(articles, id, score)
                 /\ queue' = PromoteNext(update_queue_status(queue, s, "completed"))
                 /\ last' = Did("run_workflow", "completed", NoScore)
                 /\ UNCHANGED faults
           \/ /\ faults < MaxFaults
              /\ faults' = faults + 1
              /\ \/ \E score \in RunScores :
                       /\ sent' = <<started, Msg(s, "completion", <<id, score>>),
                                    failure>>
                       /\ articles' = set_article_status(
                                          Finalized(articles, id, score), id, "failed")
                       /\ last' = Did("run_workflow", "storage_fail", NoScore)
                       /\ UNCHANGED queue
                 \/ /\ sent' = <<started, failure>>
                    /\ queue' = PromoteNext(update_queue_status(queue, s, "completed"))
                    /\ last' = Did("run_workflow", "error", NoScore)
                    /\ UNCHANGED articles
                 \/ /\ sent' = <<started, failure>>
                    /\ articles' = set_article_status(articles, id, "failed")
                    /\ last' = Did("run_workflow", "raised", NoScore)
                    /\ UNCHANGED queue
    /\ sockets' = send_all(active_connections, sockets, sent')
    /\ UNCHANGED <<archive, nextId, calls, reply, active_connections>>
    /\ UNCHANGED runVars

NextService ==
    \/ \E s \in Sessions : StartGeneration(s)
    \/ \E r \in runs : RunWorkflow(r)

\* the service started on an empty database
InitService ==
    /\ WorkflowIdle
    /\ ServiceIdle
    /\ nextId = 1

SpecService == InitService /\ [][NextService]_vars

\* the sessions in the order in which their rows were inserted
SessionOrder == <<"s1", "s2", "s3", "s4">>

RowStatuses == {"queued", "processing", "completed"}

\* the table after add_to_queue for the sessions that f gives a status, in
\* this order, followed by update_queue_status to that status
QueueTable(f) ==
    LET present == SelectSeq(SessionOrder, LAMBDA s : f[s] # "none")
    IN  [i \in 1..Len(present) |->
            [session_id |-> present[i], position |-> i, status |-> f[present[i]]]]

\* requests explored on a queue table that already holds rows
AdmissionCalls == 2

\* the service over a queue table that already holds rows
InitAdmission ==
    /\ WorkflowIdle
    /\ nextId = 1
    /\ \E f \in [Sessions -> RowStatuses \cup {"none"}] :
           ServiceAt(QueueTable(f), MaxCalls - AdmissionCalls)

SpecAdmission == InitAdmission /\ [][NextService]_vars

\* requests explored on a table with two sessions in processing
PromotionCalls == 3

\* the service with two sessions in processing, one without a row and one
\* with or without; at most one failure is explored
InitPromotion ==
    /\ WorkflowIdleAt(MaxFaults - 1)
    /\ nextId = 1
    /\ \E f \in [Sessions -> RowStatuses \cup {"none"}] :
           /\ f["s1"] = "processing"
           /\ f["s2"] = "processing"
           /\ f["s3"] = "none"
           /\ ServiceAt(QueueTable(f), MaxCalls - PromotionCalls)

SpecPromotion == InitPromotion /\ [][NextService]_vars

-----------------------------------------------------------------------------
(* The article_queue operations on their own *)

\* add_to_queue(session_id)
AddToQueue(s) ==
    /\ IF HasRow(queue, s)
       THEN /\ reply' = Reply(s, "error", 0, 0)
            /\ last' = Did("add_to_queue", "duplicate", NoScore)
            /\ UNCHANGED queue
       ELSE /\ queue' = add_to_queue(queue, s)
            /\ reply' = Reply(s, "queued", queue'[Len(queue')].position, 0)
            /\ last' = Did("add_to_queue", "ok", NoScore)
    /\ UNCHANGED <<articles, archive, runs, nextId, calls, sent,
                   active_connections, sockets>>
    /\ UNCHANGED <<runVars, faults>>

\* update_queue_status(session_id, status), with the statuses its callers pass
UpdateQueueStatus(s, status) ==
    /\ queue' = update_queue_status(queue, s, status)
    /\ reply' = [status |-> "none"]
    /\ last' = Did("update_queue_status", "ok", NoScore)
    /\ UNCHANGED <<articles, archive, runs, nextId, calls, sent,
                   active_connections, sockets>>
    /\ UNCHANGED <<runVars, faults>>

\* get_next_in_queue()
GetNextInQueue ==
    /\ IF FirstQueued(queue) = {}
       THEN reply' = Reply("", "next", 0, 0)
       ELSE \E i \in FirstQueued(queue) :
                reply' = Reply(queue[i].session_id, "next", 0, 0)
    /\ last' = Did("get_next_in_queue", "ok", NoScore)
    /\ UNCHANGED <<queue, articles, archive, runs, nextId, calls, sent,
                   active_connections, sockets>>
    /\ UNCHANGED <<runVars, faults>>

NextQueue ==
    \/ \E s \in Sessions : AddToQueue(s)
    \/ \E s \in Sessions, status \in {"processing", "completed"} :
           UpdateQueueStatus(s, status)
    \/ GetNextInQueue

SpecQueue == InitService /\ [][NextQueue]_vars

-----------------------------------------------------------------------------
(* Time travel.  While a workflow run is modelled step by step, the rows    *)
(* keyed by the run's article id are the variables article, versions and    *)
(* checkpoints; the rows of every other article id are in articles and      *)
(* archive.                                                                 *)

\* the rows stored under article id `id`
Persisted(id) ==
    IF pc # "idle" /\ state.article_id = id
    THEN [article |-> article, versions |-> versions, checkpoints |-> checkpoints]
    ELSE [article |-> articles[id], versions |-> archive[id].versions,
          checkpoints |-> archive[id].checkpoints]

CheckpointIds == {"cp1", "cp2"}

\* get_checkpoint: the row with this id, of whatever article
get_checkpoint(arch, cid) ==
    LET hits == {c \in UNION {{arch[a].checkpoints[i] :
                                 i \in 1..Len(arch[a].checkpoints)} :
                              a \in ArticleIds} : c.id = cid}
    IN  IF hits = {} THEN NoRow ELSE CHOOSE c \in hits : TRUE

\* variant: an override is applied whether or not the key is in the state
ApplyOne_Any(st, key, value) ==
    [k \in DOMAIN st \cup {key} |-> IF k = key THEN value ELSE st[k]]

\* if key in state: state[key] = value
ApplyOne(st, key, value) ==
    IF key \in DOMAIN st THEN [st EXCEPT ![key] = value] ELSE st

\* for key, value in modifications.items(): ...
RECURSIVE ApplyModifications(_, _)
ApplyModifications(st, mods) ==
    IF mods = <<>> THEN st
    ELSE ApplyModifications(ApplyOne(st, Head(mods).k, Head(mods).v), Tail(mods))

\* variant: the run keeps the article id of the checkpoint's state
NewArticleId_Reuse(st, fresh) == st.article_id

\* new_article_id = f"article_{uuid.uuid4().hex[:12]}"
NewArticleId(st, fresh) == fresh

\* the state that time_travel hands to the workflow
SeedState(cp, mods, fresh) ==
    LET st == ApplyModifications(cp.state_data, mods)
    IN  [st EXCEPT !.article_id = NewArticleId(st, fresh)]

\* the override mappings of the explored requests
Modifications ==
    { <<>>,
      <<[k |-> "article_id", v |-> 1]>>,
      <<[k |-> "failed_nodes", v |-> <<"math">>], [k |-> "topic", v |-> "other"]>> }

\* time_travel up to the call of the workflow
TimeTravel(cid, mods) ==
    /\ pc = "idle"
    /\ calls < MaxCalls
    /\ calls' = calls + 1
    /\ LET cp == get_checkpoint(archive, cid)
       IN  IF cp = NoRow
           THEN /\ reply' = Reply("", "not_found", 0, 0)
                /\ last' = Did("time_travel", "not_found", NoScore)
                /\ UNCHANGED <<pc, state, versions, checkpoints, article, nextId>>
           ELSE /\ state' = SeedState(cp, mods, nextId)
                /\ nextId' = nextId + 1
                /\ pc' = "generate"
                /\ versions' = archive[state'.article_id].versions
                /\ checkpoints' = archive[state'.article_id].checkpoints
                /\ article' = articles[state'.article_id]
                /\ last' = Did("time_travel", "ok",
                               [checkpoint_id |-> cid, modifications |-> mods])
                /\ UNCHANGED reply
    /\ UNCHANGED <<logs, lastLog, passTrace, addCount, nominal, faults>>
    /\ UNCHANGED <<queue, articles, archive, runs, sent, active_connections, sockets>>

\* time_travel after the workflow returned
TimeTravelReturn ==
    /\ pc = "END"
    /\ pc' = "returned"
    /\ reply' = Reply("", "success", 0, state.article_id)
    /\ last' = Did("time_travel", "returned", NoScore)
    /\ UNCHANGED <<state, versions, checkpoints, logs, lastLog, article,
                   passTrace, addCount, nominal, faults>>
    /\ UNCHANGED <<queue, articles, archive, runs, nextId, calls, sent,
                   active_connections, sockets>>

\* a state as the JSON column gives it back: requirements and metadata
\* are two mappings
Stored(st) == [st EXCEPT !.requirements.is_metadata = FALSE]

\* a mapping without the keys ks
Without(st, ks) == [k \in DOMAIN st \ ks |-> st[k]]

\* states a checkpoint can hold: one of generate, saved without the topic
\* key, and that of the first regenerate of a run
Snapshots ==
    { Without(Stored([InitialState EXCEPT !.content = Content(1, TRUE, TRUE),
                                          !.current_node = "generate"]),
              {"topic"}),
      Stored([InitialState EXCEPT !.content = Content(2, FALSE, FALSE),
                                  !.current_node = "regenerate",
                                  !.iteration = 1,
                                  !.scores = <<[k |-> "structure", v |-> 0]>>,
                                  !.feedback = <<[k |-> "structure", v |-> NoScore]>>,
                                  !.retry_counts = [v \in ValidatorSet |->
                                                       IF v = "structure" THEN 1 ELSE 0]]) }

\* an article (id 1) with a version and one checkpoint; one request is
\* explored, and at most one failure in the run it starts
InitTimeTravel ==
    /\ WorkflowIdleAt(MaxFaults - 1)
    /\ nextId = 2
    /\ \E snap \in Snapshots, status \in {"processing", "completed"} :
              /\ queue = <<>>
              /\ articles = [create_article([i \in ArticleIds |-> NoRow], 1, "s1")
                                 EXCEPT ![1] = IF status = "completed"
                                               THEN update_article(@, snap.content,
                                                        status, PUBLISH_THRESHOLD * 840)
                                               ELSE @]
              /\ archive = [i \in ArticleIds |->
                               IF i = 1
                               THEN [versions |-> create_version(<<>>, snap.content,
                                                                 snap.current_node),
                                     checkpoints |-> <<[id |-> "cp1",
                                                        node_name |-> snap.current_node,
                                                        state_data |-> snap]>>]
                               ELSE EmptyStore]
              /\ runs = {}
              /\ calls = MaxCalls - 1
              /\ reply = [status |-> "none"]
              /\ sent = <<>>
              /\ active_connections = [s \in Sessions |-> NoSocket]
              /\ sockets = [k \in Sockets |-> NewSocket]

NextTimeTravel ==
    \/ \E cid \in CheckpointIds, mods \in Modifications : TimeTravel(cid, mods)
    \/ Generate
    \/ \E v \in ValidatorSet : Validate(v)
    \/ Route
    \/ Regenerate
    \/ Finalize
    \/ TimeTravelReturn

SpecTimeTravel == InitTimeTravel /\ [][NextTimeTravel]_vars

-----------------------------------------------------------------------------
(* Properties *)

FailedSet(st) == {st.failed_nodes[i] : i \in 1..Len(st.failed_nodes)}

Exhausted(st) == \E v \in ValidatorSet : st.retry_counts[v] >= MAX_RETRIES

\* C1: in every pass the eight stages run once each in the order structure,
\* language, grammar, length, math, depth, readability, code; the decision
\* point (and what follows it) is reached only after the code stage, also
\* when an earlier stage scored below threshold or exhausted its retries.
C1_FixedOrder ==
    /\ Len(passTrace) <= Len(Validators)
    /\ \A i \in 1..Len(passTrace) : passTrace[i] = Validators[i]
    /\ \A i \in 1..Len(Validators) :
           pc = NodeOf(Validators[i]) => Len(passTrace) = i - 1
    /\ pc \in {"should_regenerate", "regenerate", "finalize", "END"}
           => passTrace = Validators

\* the first stage exhausted its retries and the pass still ran all stages
C1_Witness ==
    /\ pc = "should_regenerate"
    /\ passTrace = Validators
    /\ state.retry_counts["structure"] >= MAX_RETRIES
    /\ state.status = "failed"

\* what C2 says a stage does with a judgment of score s
StageEffect(v, s) ==
    /\ DictGet(state'.scores, v, -1) = s
    /\ IF s < MIN_SCORE_THRESHOLD
       THEN /\ state'.failed_nodes = Append(state.failed_nodes, v)
            /\ state'.retry_counts = [state.retry_counts EXCEPT ![v] = @ + 1]
       ELSE /\ state'.failed_nodes = state.failed_nodes
            /\ state'.retry_counts = state.retry_counts

C3_FailedRoute ==
    [][(pc = "should_regenerate" /\ state.failed_nodes # <<>>)
           => /\ pc' = IF \E v \in FailedSet(state) :
                              state.retry_counts[v] >= MAX_RETRIES
                       THEN "finalize" ELSE "regenerate"
              /\ state' = state]_vars

\* two failed stages, only the second at the limit: finalize
C3_Witness ==
    /\ pc = "finalize"
    /\ Len(state.failed_nodes) = 2
    /\ state.retry_counts[state.failed_nodes[1]] < MAX_RETRIES
    /\ state.retry_counts[state.failed_nodes[2]] = MAX_RETRIES

\* C4: with failed_nodes empty and every score >= 7.5 the route is finalize,
\* also when the mean is below 8.5, and failed_nodes stays empty.
C4_NoBlame ==
    [][(/\ pc = "should_regenerate"
        /\ state.failed_nodes = <<>>
        /\ \A i \in 1..Len(state.scores) : state.scores[i].v >= MIN_SCORE_THRESHOLD)
           => /\ pc' = "finalize"
              /\ state'.failed_nodes = <<>>]_vars

\* all eight scores 8.0: finalize with nothing blamed
C4_Witness ==
    /\ pc = "finalize"
    /\ state.failed_nodes = <<>>
    /\ Len(state.scores) = Len(Validators)
    /\ \A i \in 1..Len(state.scores) : state.scores[i].v = 80

\* the case of C5: nothing failed, mean below 8.5, lowest score below 7.5
C5_Case ==
    /\ pc = "should_regenerate"
    /\ state.failed_nodes = <<>>
    /\ state.scores # <<>>
    /\ DictSum(state.scores) < PUBLISH_THRESHOLD * Len(state.scores)
    /\ \E i \in 1..Len(state.scores) : state.scores[i].v < MIN_SCORE_THRESHOLD

IsLowest(v) ==
    /\ v \in DictKeys(state.scores)
    /\ \A j \in 1..Len(state.scores) :
           DictGet(state.scores, v, 0) <= state.scores[j].v

\* C5 as stated: in that case exactly one stage is appended to failed_nodes,
\* the lowest-scoring one, the first in stage order among ties, and the
\* route is regenerate.
C5_Orig ==
    [][C5_Case =>
          LET i == CHOOSE i \in 1..Len(Validators) :
                       /\ IsLowest(Validators[i])
                       /\ \A j \in 1..(i - 1) : ~IsLowest(Validators[j])
          IN  /\ pc' = "regenerate"
              /\ state'.failed_nodes = <<Validators[i]>>]_vars

\* C5 amended: ... the lowest-scoring one, the first in the insertion order
\* of the scores mapping among ties, and the route is regenerate.
C5_LowestBlamed ==
    [][C5_Case =>
          LET i == CHOOSE i \in 1..Len(state.scores) :
                       /\ IsLowest(state.scores[i].k)
                       /\ \A j \in 1..(i - 1) : ~IsLowest(state.scores[j].k)
          IN  /\ pc' = "regenerate"
              /\ state'.failed_nodes = <<state.scores[i].k>>]_vars

\* structure and math tie at 6.0, math was written first and is blamed
C5_Witness ==
    /\ pc = "regenerate"
    /\ state.failed_nodes = <<"math">>
    /\ DictGet(state.scores, "structure", -1) = 60
    /\ DictGet(state.scores, "math", -1) = 60
    /\ DictIndex(state.scores, "math") < DictIndex(state.scores, "structure")
    /\ \A i \in 1..Len(state.scores) : state.scores[i].v >= 60

\* C6 as stated: at the decision point of every pass no stage whose score is
\* >= 7.5 is in failed_nodes, also in a pass that follows a regenerate whose
\* model call failed.
C6_Orig ==
    pc = "should_regenerate" =>
        \A v \in FailedSet(state) :
            DictGet(state.scores, v, 0) < MIN_SCORE_THRESHOLD

\* C7 as stated: retry_counts[v] never decreases and equals the number of
\* times v was added to failed_nodes, by its own stage or by the routing
\* function.
C7_Orig ==
    [][\A v \in ValidatorSet :
           /\ state'.retry_counts[v] >= state.retry_counts[v]
           /\ state'.retry_counts[v] = addCount'[v]]_vars

\* C8 as stated: once status is completed, failed or error it never takes a
\* different value.
C8_Orig ==
    [][state.status \in {"completed", "failed", "error"}
           => state'.status = state.status]_vars

\* C9 as stated: after a stage whose model call failed (status error) no
\* further stage is executed and the run ends with status error.
C9_Orig ==
    [][last.kind = "adapter_fail" => UNCHANGED <<pc, state>>]_vars

\* C10 as stated: a run in which a retry counter reached MAX_RETRIES, and
\* whose finalize succeeded, ends with status failed and its last draft as
\* the article content.
C10_Orig ==
    (pc = "END" /\ last.kind = "ok" /\ Exhausted(state))
        => /\ state.status = "failed"
           /\ article.content = state.content

\* what C11 says a stage does with content it has nothing to judge in
GatedEffect(v) ==
    /\ DictGet(state'.scores, v, -1) = 100
    /\ DictGet(state'.feedback, v, NoScore) = NotApplicable
    /\ last'.kind = "gated"
    /\ faults' = faults
    /\ state'.failed_nodes = state.failed_nodes
    /\ state'.retry_counts = state.retry_counts
    /\ state'.status = state.status

\* C11: on content without a math span the math stage sets scores[math] to
\* 10.0 and a not-applicable feedback without calling the validator model,
\* and leaves failed_nodes, retry_counts and status as they were; the code
\* stage does the same on content without a fenced code block.
C11_Gating ==
    [][/\ (pc = "validate_math" /\ ~state.content.math) => GatedEffect("math")
       /\ (pc = "validate_code" /\ ~state.content.code) => GatedEffect("code")]_vars

\* the code stage was skipped in a pass in which an earlier stage failed
C11_Witness ==
    /\ last.node = "validate_code"
    /\ last.kind = "gated"
    /\ DictGet(state.scores, "code", -1) = 100
    /\ DictGet(state.scores, "math", -1) = 100
    /\ state.failed_nodes = <<"structure">>

\* C12: after every validator stage, whatever its outcome, scores and
\* feedback have the same keys.
C12_KeySets == DictKeys(state.scores) = DictKeys(state.feedback)

\* the math stage's model call failed: the stage wrote neither entry
C12_Witness ==
    /\ last.node = "validate_math"
    /\ last.kind = "adapter_fail"
    /\ DictKeys(state.scores) = {"structure", "language", "grammar", "length"}
    /\ DictKeys(state.feedback) = DictKeys(state.scores)

\* C13: iteration starts at 0, grows by exactly 1 at each execution of the
\* regenerate stage (also one whose model call fails) and at no other step.
C13_Iteration ==
    /\ state.iteration = 0
    /\ [][state'.iteration =
             state.iteration + (IF pc = "regenerate" THEN 1 ELSE 0)]_vars

\* the second regenerate failed in its model call and was counted
C13_Witness ==
    /\ last.node = "regenerate"
    /\ last.kind = "adapter_fail"
    /\ state.iteration = 2

\* version numbers are 1..n in the order of the rows
VersionsNumbered == \A i \in 1..Len(versions) : versions[i].version_number = i

\* C14 as stated: version numbers are exactly 1..n and every generate or
\* regenerate transition appends one version, so after k regenerate
\* transitions there are k+1 versions.
C14_Orig ==
    /\ VersionsNumbered
    /\ pc # "generate" => Len(versions) = state.iteration + 1

\* C14 amended: version numbers are exactly 1..n; a generate or regenerate
\* transition appends exactly one version when it completes without error
\* and at most one otherwise, and no other step appends one; so after k
\* regenerate transitions there are at most k+1 versions, and exactly k+1
\* when no call has failed.
C14_Versions ==
    /\ [](/\ VersionsNumbered
          /\ Len(versions) <= state.iteration + 1
          /\ (faults = 0 /\ pc # "generate") => Len(versions) = state.iteration + 1)
    /\ [][IF pc \in {"generate", "regenerate"}
          THEN /\ Len(versions') \in {Len(versions), Len(versions) + 1}
               /\ last'.kind = "ok" => Len(versions') = Len(versions) + 1
               /\ SubSeq(versions', 1, Len(versions)) = versions
          ELSE versions' = versions]_vars

\* two regenerate transitions, one of which failed: two versions
C14_Witness ==
    /\ state.iteration = 2
    /\ pc = "validate_structure"
    /\ Len(versions) = 2
    /\ versions[2].version_number = 2

\* the fields of the state other than scores, failed_nodes and retry_counts,
\* set to other values
OtherFields ==
    [ status    : {"processing", "failed", "error", "completed"},
      iteration : {0, MaxIter},
      shape     : Shapes,
      flags     : BOOLEAN ]

Vary(st, o) ==
    [st EXCEPT !.status = o.status,
               !.error = IF o.status = "processing" THEN "None" ELSE "exception",
               !.iteration = o.iteration,
               !.content = Content(o.iteration + 1, o.shape[1], o.shape[2]),
               !.has_math = o.flags,
               !.has_code = o.flags,
               !.current_node = "regenerate",
               !.feedback = <<>>,
               !.metadata = {"word_count"}]

\* C17: the route taken at the decision point is the route the function
\* returns for every state with the same scores, failed_nodes and
\* retry_counts, whatever the other fields hold.
C17_RouteFunction ==
    [][pc = "should_regenerate" =>
           \A o \in OtherFields : should_regenerate(Vary(state, o)).route = pc']_vars

\* a regenerate decision on retry counts below the limit, which a run that
\* has status failed would get as well
C17_Witness ==
    /\ pc = "regenerate"
    /\ last.kind = "route"
    /\ state.failed_nodes = <<"structure", "math">>
    /\ state.retry_counts["structure"] = MAX_RETRIES - 1
    /\ should_regenerate(Vary(state, [status |-> "failed", iteration |-> 0,
                                      shape |-> <<FALSE, FALSE>>,
                                      flags |-> FALSE])).route = "regenerate"

\* the step is a call of send_message
SendStep == last'.node = "send_message" /\ calls' = calls + 1

\* C19 as stated: a message sent to a session while a socket is registered
\* for it is appended to what that socket received (once, in send order); a
\* message to a session without registered socket changes nothing; a socket
\* that was disconnected receives nothing more.
C19_Orig ==
    [][/\ IF SendStep
          THEN LET k == active_connections[sent'[1].to]
               IN  IF k # NoSocket
                   THEN sockets' = [sockets EXCEPT ![k].inbox = Append(@, sent'[1])]
                   ELSE sockets' = sockets
          ELSE \A k \in Sockets : sockets'[k].inbox = sockets[k].inbox
       /\ \A k \in Sockets :
              ~sockets[k].open => sockets'[k].inbox = sockets[k].inbox]_vars

\* C19 amended: the same, for a message whose send on the registered socket
\* does not raise; a message whose send raises is dropped without error.
C19_Delivery ==
    [][/\ IF SendStep
          THEN LET k == active_connections[sent'[1].to]
               IN  IF k # NoSocket /\ last'.kind # "send_fail"
                   THEN sockets' = [sockets EXCEPT ![k].inbox = Append(@, sent'[1])]
                   ELSE sockets' = sockets
          ELSE \A k \in Sockets : sockets'[k].inbox = sockets[k].inbox
       /\ \A k \in Sockets :
              ~sockets[k].open => sockets'[k].inbox = sockets[k].inbox]_vars

\* a socket received two messages in send order, was disconnected, and the
\* next message for its session was dropped
C19_Witness ==
    /\ \E k \in Sockets :
           /\ ~sockets[k].open
           /\ Len(sockets[k].inbox) = 2
           /\ sockets[k].inbox[1].no < sockets[k].inbox[2].no
           /\ sent # <<>>
           /\ sent[1].to = sockets[k].session
    /\ last.node = "send_message"
    /\ last.kind = "dropped"

\* the step handles a start-generation request, and no storage call fails
StartStep ==
    /\ last'.node = "generate_article_endpoint"
    /\ last'.kind # "storage_fail"
    /\ calls' = calls + 1

\* C15 as stated, for requests whose storage calls do not fail for outside
\* reasons: a request that arrives while get_processing_count is at
\* least MAX_CONCURRENT_ARTICLES gets a queue row with status queued and a
\* position, and neither an article nor a run; a request that arrives below
\* the limit gets an article with status processing and a run.
C15_Orig ==
    [][StartStep =>
          LET s == reply'.session_id
          IN  IF get_processing_count(queue) >= MAX_CONCURRENT_ARTICLES
              THEN /\ reply'.status = "queued"
                   /\ \E i \in 1..Len(queue') :
                          /\ queue'[i].session_id = s
                          /\ queue'[i].status = "queued"
                          /\ queue'[i].position = reply'.position
                   /\ articles' = articles
                   /\ runs' = runs
              ELSE \E id \in ArticleIds :
                       /\ articles[id] = NoRow
                       /\ articles'[id].status = "processing"
                       /\ articles'[id].session_id = s
                       /\ runs' = runs \cup {[session_id |-> s, article_id |-> id]}
                       /\ [session_id |-> s, article_id |-> id] \notin runs]_vars

\* C16 as stated: started on an empty queue table, the service never has
\* more than MAX_CONCURRENT_ARTICLES runs in flight.
C16_Orig == Cardinality(runs) <= MAX_CONCURRENT_ARTICLES

\* the step is the end of a run_workflow task
RunEnd == last'.node = "run_workflow" /\ runs' # runs

\* the terminal notifications among the messages ms
Terminal(ms) == SelectSeq(ms, LAMBDA m : m.type \in {"completion", "error"})

\* C20 as stated: when run_workflow finishes, the session's queue row (if
\* any) has status completed and exactly one terminal notification was sent:
\* a completion with the article id and the overall score when the final
\* status is completed, an error otherwise.
C20_Orig ==
    [][RunEnd =>
          \E r \in runs \ runs' :
              /\ \A i \in 1..Len(queue') :
                     queue'[i].session_id = r.session_id
                         => queue'[i].status = "completed"
              /\ Len(Terminal(sent')) = 1
              /\ Terminal(sent')[1].to = r.session_id
              /\ IF last'.kind \in {"completed", "storage_fail"}
                 THEN /\ Terminal(sent')[1].type = "completion"
                      /\ Terminal(sent')[1].body[1] = r.article_id
                 ELSE Terminal(sent')[1].type = "error"]_vars

\* the articles that have a row
Existing == {id \in ArticleIds : articles[id] # NoRow}

\* the step is time_travel loading a checkpoint and starting the workflow
TimeTravelStep == last'.node = "time_travel" /\ last'.kind = "ok"

\* C18: a time-travel run works under a new article id that differs from
\* the id of every existing article, and no step of it changes the stored
\* checkpoint or an existing article's content, status or versions.
C18_TimeTravel ==
    [][\A id \in Existing :
           /\ TimeTravelStep => state'.article_id # id
           /\ Persisted(id)' = Persisted(id)]_vars

\* a time-travel run reached END under the new id, with versions of its own
C18_Witness ==
    /\ pc = "END"
    /\ last.node = "finalize"
    /\ state.article_id \notin Existing
    /\ Len(versions) >= 2
    /\ Len(archive[1].checkpoints) = 1
    /\ Len(archive[1].versions) = 1

\* the session whose row was inserted first among the rows still queued
EarliestQueued(q) ==
    IF StatusCount(q, "queued") = 0 THEN ""
    ELSE q[CHOOSE i \in 1..Len(q) :
               /\ q[i].status = "queued"
               /\ \A j \in 1..(i - 1) : q[j].status # "queued"].session_id

\* C21 as stated: add_to_queue returns the number of queued sessions plus 1,
\* and get_next_in_queue returns the session enqueued earliest among those
\* still queued (nothing when none is queued), after any sequence of
\* enqueue and status-update operations.
C21_Orig ==
    [][/\ (last'.node = "add_to_queue" /\ last'.kind = "ok")
             => reply'.position = StatusCount(queue, "queued") + 1
       /\ last'.node = "get_next_in_queue"
             => reply'.session_id = EarliestQueued(queue)]_vars

\* no stage is listed twice
NoDuplicates(seq) ==
    \A i \in 1..Len(seq), j \in 1..Len(seq) : seq[i] = seq[j] => i = j

\* C22 as stated, in what it says of the state: after every execution of
\* regenerate failed_nodes is empty and the stage that runs next is
\* validate_structure, and at the decision point no stage is listed in
\* failed_nodes more than once.
C22_Orig ==
    /\ last.node = "regenerate"
          => state.failed_nodes = <<>> /\ pc = "validate_structure"
    /\ pc = "should_regenerate" => NoDuplicates(state.failed_nodes)

\* the step is a finalize that succeeded
FinalizeOk == pc = "finalize" /\ last'.node = "finalize" /\ last'.kind = "ok"

\* overall_score is the mean of the values of scores, 0.0 for no values, and
\* the run's status becomes completed
FinalizeState ==
    /\ IF state.scores = <<>>
       THEN state'.overall_score = 0
       ELSE Len(state.scores) * state'.overall_score = 840 * DictSum(state.scores)
    /\ state'.status = "completed"

\* the articles row holds the score, the content and status completed
FinalizeRow ==
    /\ article'.status = "completed"
    /\ article'.content = state'.content
    /\ article'.overall_score = state'.overall_score

C24_AdapterFail ==
    [][\A v \in ValidatorSet :
           (pc = NodeOf(v) /\ last'.kind = "adapter_fail")
               => /\ state'.status = "error"
                  /\ state'.error = "exception"
                  /\ pc' = Edge(NodeOf(v))
                  /\ state'.scores = state.scores
                  /\ state'.feedback = state.feedback
                  /\ state'.failed_nodes = state.failed_nodes
                  /\ state'.retry_counts = state.retry_counts]_vars

\* the model call of the math stage failed in a pass in which structure
\* had failed, and in a later pass than the first
C24_Witness ==
    /\ last.node = "validate_math"
    /\ last.kind = "adapter_fail"
    /\ pc = "validate_depth"
    /\ state.status = "error"
    /\ state.failed_nodes = <<"structure">>
    /\ state.retry_counts["structure"] = 2
    /\ "math" \in DictKeys(state.scores)

\* the nodes that write a version, a checkpoint or a validation log
WritingNodes == {"generate", "regenerate"} \cup {NodeOf(v) : v \in ValidatorSet}

\* C25 as stated: a storage write error raised inside a stage aborts the
\* stage and propagates as an exception to the caller: the stage returns no
\* state, so no node of the graph runs next, and the error is not written
\* into the state.
C25_Orig ==
    [][(last'.kind = "storage_fail" /\ last'.node \in WritingNodes)
          => /\ pc' \notin WritingNodes \cup {"should_regenerate", "finalize"}
             /\ state'.status = state.status
             /\ state'.error = state.error]_vars

\* the request of the time_travel call that took the step
Request == last'.judgment

\* the value the override mapping gives key k
Override(mods, k) == mods[CHOOSE i \in 1..Len(mods) : mods[i].k = k].v

OverrideKeys(mods) == {mods[i].k : i \in 1..Len(mods)}

\* the stored state under the overrides for the keys in ks, with the
\* article id replaced by id
Overridden(snap, mods, ks, id) ==
    [k \in DOMAIN snap \cup ks |->
        IF k = "article_id" THEN id
        ELSE IF k \in ks THEN Override(mods, k)
        ELSE snap[k]]

\* C26 as stated: the seed of a time-travel run is the checkpoint's state
\* with every field of the override mapping applied, also a field absent
\* from the snapshot, and the article id replaced by the new id.
C26_Orig ==
    [][TimeTravelStep =>
          LET snap == get_checkpoint(archive, Request.checkpoint_id).state_data
              mods == Request.modifications
          IN  state' = Overridden(snap, mods, OverrideKeys(mods), nextId)]_vars

\* C26 amended: the overrides are applied for the fields that the snapshot
\* holds; an override for a field absent from the snapshot is ignored.
C26_Seed ==
    [][TimeTravelStep =>
          LET snap == get_checkpoint(archive, Request.checkpoint_id).state_data
              mods == Request.modifications
          IN  state' = Overridden(snap, mods,
                                  OverrideKeys(mods) \cap DOMAIN snap, nextId)]_vars

\* a run was seeded from the snapshot without topic under a request that
\* overrides topic and failed_nodes, and reached the decision point
C26_Witness ==
    /\ pc = "should_regenerate"
    /\ state.article_id = 2
    /\ "topic" \notin DOMAIN state
    /\ state.failed_nodes # <<>>
    /\ state.failed_nodes[1] = "math"

\* the step is the first one of the run that time_travel seeded
FirstStageStep == last.node = "time_travel" /\ last.kind = "ok"

\* C27 as stated: a time-travel run re-enters the workflow at the point of
\* the checkpoint: the stage that wrote the checkpoint is not executed
\* again, the first stage executed is validate_structure, and it judges the
\* content of the seeded state.
C27_Orig ==
    [][/\ TimeTravelStep => pc' = "validate_structure"
       /\ FirstStageStep => /\ last'.node = "validate_structure"
                            /\ state'.content = state.content]_vars

\* the step is a start-generation request of session s
RequestOf(s) ==
    last'.node = "generate_article_endpoint" /\ reply'.session_id = s

RunEndOf(s) == RunEnd /\ \E r \in runs \ runs' : r.session_id = s

InputFields ==
    {"topic", "author", "target_audience", "article_type", "tone", "requirements"}

\* C29 as stated: topic, author, audience, article type, tone and the
\* requirements mapping have in every state of a run the value they had
\* at creation; no stage changes them.
C29_Orig == \A k \in InputFields : state[k] = InitialState[k]

\* the step is an execution of stage v that obtained a judgment
JudgedStep(v) == pc = NodeOf(v) /\ last'.kind \in {"ok", "storage_fail"}

\* one row was appended for stage v: it holds the score of the judgment,
\* the retry counter as it was before this execution, and status failed
\* exactly when the score is below the threshold
OneLog(v) ==
    /\ logs' = logs + 1
    /\ lastLog'.node_name = v
    /\ lastLog'.score = ResultScore(last'.judgment)
    /\ lastLog'.retry_count = state.retry_counts[v]
    /\ lastLog'.status = "failed" <=> ResultScore(last'.judgment) < MIN_SCORE_THRESHOLD
    /\ lastLog'.status \in {"failed", "passed"}

\* C30 as stated: every stage execution that obtains a judgment appends
\* exactly one validation-log entry with the retry count the stage had
\* before the execution and status failed exactly when the score is below
\* MIN_SCORE_THRESHOLD; no entry is modified or removed afterwards.
C30_Orig ==
    [][/\ \A v \in ValidatorSet : JudgedStep(v) => OneLog(v)
       /\ (\A v \in ValidatorSet : ~JudgedStep(v))
             => logs' = logs /\ lastLog' = lastLog]_vars

\* C30 amended: the same for every execution whose log write succeeds; an
\* execution whose log write raises appends no entry; no other step
\* appends, modifies or removes an entry.
C30_Log ==
    [][/\ \A v \in ValidatorSet :
             JudgedStep(v) => IF last'.kind = "ok"
                              THEN OneLog(v)
                              ELSE logs' = logs /\ lastLog' = lastLog
       /\ (\A v \in ValidatorSet : ~JudgedStep(v))
             => logs' = logs /\ lastLog' = lastLog]_vars

\* a stage failed for the second time and its entry holds retry count 1
C30_Witness ==
    /\ last.kind = "ok"
    /\ last.node = "validate_structure"
    /\ lastLog.node_name = "structure"
    /\ lastLog.status = "failed"
    /\ lastLog.retry_count = 1
    /\ state.retry_counts["structure"] = 2

-----------------------------------------------------------------------------
(* The total number of regenerations *)

RECURSIVE RetryTotal(_, _)
\* the sum of the retry counters of the first n stages
RetryTotal(st, n) ==
    IF n = 0 THEN 0 ELSE st.retry_counts[Validators[n]] + RetryTotal(st, n - 1)

\* the judgments of the run alternate: structure is judged below the
\* threshold in the passes of even iteration and math (never gated) in the
\* passes of odd iteration, every other judgment is above it
AlternateFail ==
    /\ (last.node = "validate_structure" /\ last.kind = "ok")
          => ((last.judgment = NoScore) <=> (state.iteration % 2 = 0))
    /\ last.node = "validate_math"
          => /\ last.kind = "ok"
             /\ (last.judgment = NoScore) <=> (state.iteration % 2 = 1)

EverFailed == {v \in ValidatorSet : state.retry_counts[v] > 0}

\* C32: in a run from a fresh state in which no call fails, regenerate
\* executes at most MAX_RETRIES - 1 times per stage that ever failed, hence
\* at most 8 * (MAX_RETRIES - 1) times, and the run reaches finalize,
\* whatever the judgments are
C32_Bounded ==
    /\ [](/\ state.iteration <= Cardinality(EverFailed) * (MAX_RETRIES - 1)
          /\ state.iteration <= Len(Validators) * (MAX_RETRIES - 1))
    /\ <>(pc = "finalize")

\* a run that went through every regeneration its two failing stages allow
C32_Witness ==
    /\ pc = "END"
    /\ state.status = "completed"
    /\ state.iteration = Cardinality(EverFailed) * (MAX_RETRIES - 1)
    /\ state.iteration > MAX_RETRIES
    /\ state.retry_counts["math"] = MAX_RETRIES
    /\ faults = MaxFaults

\* C33 as stated: under any pattern of adapter failures the run reaches the
\* end of the workflow, and the regenerations stay within the number that
\* the retry counters allow
C33_Orig ==
    /\ [](state.iteration <= Len(Validators) * (MAX_RETRIES - 1))
    /\ <>(pc = "END")

\* every stage has a score in `st` and none is below the threshold
AllScoresPass(st) ==
    \A v \in ValidatorSet :
        /\ v \in DictKeys(st.scores)
        /\ DictGet(st.scores, v, 0) >= MIN_SCORE_THRESHOLD

\* C34: in a run from a fresh state in which no call fails, an empty
\* failed_nodes at the decision point means that all eight scores are at
\* least MIN_SCORE_THRESHOLD; the decision appends nothing to failed_nodes
\* and sends such a pass to finalize, whatever the mean is
C34_NoPolicyRegeneration ==
    [][pc = "should_regenerate"
         => /\ state.failed_nodes = <<>> => AllScoresPass(state)
            /\ state'.failed_nodes = state.failed_nodes
            /\ state.failed_nodes = <<>> => pc' = "finalize"]_vars

\* a pass without a failed stage and with a mean below the publish bar was
\* sent to finalize
C34_Witness ==
    /\ pc = "finalize"
    /\ last.node = "should_regenerate"
    /\ state.failed_nodes = <<>>
    /\ BelowPublish(state.scores)
    /\ state.iteration > 0
    /\ faults = MaxFaults

\* C35: in a run from a fresh state no retry counter exceeds MAX_RETRIES,
\* whatever the judgments and the failing calls are: once the counter of a
\* stage has reached MAX_RETRIES the run neither regenerates nor enters that
\* stage again
C35_CounterLimit ==
    [][\A v \in ValidatorSet :
          /\ state'.retry_counts[v] <= MAX_RETRIES
          /\ state.retry_counts[v] >= MAX_RETRIES
                => pc' \notin {"regenerate", NodeOf(v)}]_vars

\* structure failed for the fifth time in a pass in which the call of the
\* math stage raised
C35_Witness ==
    /\ pc = "validate_depth"
    /\ last = Did("validate_math", "adapter_fail", NoScore)
    /\ state.retry_counts["structure"] = MAX_RETRIES
    /\ state.status = "error"

\* C36 as stated, in its first requirement: when finalize computes
\* overall_score, scores holds an entry for each of the eight stages (the
\* entries being those of the last pass)
C36_Orig == pc = "finalize" => \A v \in ValidatorSet : v \in DictKeys(state.scores)

\* C37 as stated, at the end of the run: the article of a started run has
\* left status processing when run_workflow finishes; it is completed when
\* the run finalized, and it has a terminal status other than completed
\* when the run ended with status error or the workflow raised
C37_Orig ==
    [][RunEnd =>
          \E r \in runs \ runs' :
              /\ articles'[r.article_id].status # "processing"
              /\ last'.kind = "completed"
                    => articles'[r.article_id].status = "completed"
              /\ last'.kind \in {"error", "raised"}
                    => articles'[r.article_id].status \notin {"processing", "completed"}]_vars

\* C38 as stated: when the disconnect of a socket is processed after the
\* session has opened a newer socket, the registry keeps the newer socket
C38_Orig ==
    [][\A k \in Sockets :
          (sockets[k].open /\ ~sockets'[k].open)
             => LET s == sockets[k].session
                IN  active_connections[s] # k
                       => active_connections'[s] = active_connections[s]]_vars

-----------------------------------------------------------------------------
(* LaTeXHandler.  A text is a sequence of characters; an image reference   *)
(* ("\n\n![Equation k](/static/images/eq_<id>_<idx>.png)\n\n", a string    *)
(* without "$") is one element.                                            *)

MaxLen == 9

Chars == {"$", " ", "a"}

Texts == UNION {[1..n -> Chars] : n \in 0..MaxLen}

\* the string p stands in s at index i
IsAt(s, i, p) == i + Len(p) - 1 <= Len(s) /\ SubSeq(s, i, i + Len(p) - 1) = p

\* the index of the first occurrence of p in s at or after `from`, or 0
Find(s, p, from) ==
    LET I == {i \in from..Len(s) : IsAt(s, i, p)}
    IN  IF I = {} THEN 0 ELSE CHOOSE i \in I : \A j \in I : i <= j

RECURSIVE RemoveAll(_, _)
\* s.replace(p, '')
RemoveAll(s, p) ==
    LET i == Find(s, p, 1)
    IN  IF i = 0 THEN s
        ELSE SubSeq(s, 1, i - 1) \o RemoveAll(SubSeq(s, i + Len(p), Len(s)), p)

\* re.sub(re.escape(p), r, s, count=1)
ReplaceFirst(s, p, r) ==
    LET i == Find(s, p, 1)
    IN  IF i = 0 THEN s
        ELSE SubSeq(s, 1, i - 1) \o r \o SubSeq(s, i + Len(p), Len(s))

RECURSIVE Strip(_)
\* str.strip()
Strip(g) ==
    IF g # <<>> /\ Head(g) = " " THEN Strip(Tail(g))
    ELSE IF g # <<>> /\ g[Len(g)] = " " THEN Strip(SubSeq(g, 1, Len(g) - 1))
    ELSE g

RECURSIVE DisplayMatches(_, _)
\* re.finditer(r'\$\$(.*?)\$\$', s, re.DOTALL) from index `from` on
DisplayMatches(s, from) ==
    LET i == Find(s, <<"$", "$">>, from)
        j == IF i = 0 THEN 0 ELSE Find(s, <<"$", "$">>, i + 2)
    IN  IF j = 0 THEN <<>>
        ELSE <<[group |-> SubSeq(s, i + 2, j - 1), whole |-> SubSeq(s, i, j + 1)]>>
                 \o DisplayMatches(s, j + 2)

RECURSIVE InlineMatches(_, _)
\* re.finditer(r'\$([^\$]+?)\$', t) from index `from` on
InlineMatches(t, from) ==
    LET I == {i \in from..(Len(t) - 2) :
                 /\ t[i] = "$"
                 /\ t[i + 1] # "$"
                 /\ \E k \in (i + 2)..Len(t) : t[k] = "$"}
    IN  IF I = {} THEN <<>>
        ELSE LET i == CHOOSE i \in I : \A j \in I : i <= j
                 k == Find(t, <<"$">>, i + 1)
             IN  <<[group |-> SubSeq(t, i + 1, k - 1), whole |-> SubSeq(t, i, k)]>>
                     \o InlineMatches(t, k + 1)

RECURSIVE WithoutDisplay(_, _)
\* content_without_display after the loop over the display matches ms
WithoutDisplay(t, ms) ==
    IF ms = <<>> THEN t ELSE WithoutDisplay(RemoveAll(t, Head(ms).whole), Tail(ms))

\* the (equation, mode) pairs in the order of the returned list
extract_equations(content) ==
    LET ds == DisplayMatches(content, 1)
        is == InlineMatches(WithoutDisplay(content, ds), 1)
    IN  [n \in 1..Len(ds) |-> [equation |-> Strip(ds[n].group), mode |-> "display"]]
        \o [n \in 1..Len(is) |-> [equation |-> Strip(is[n].group), mode |-> "inline"]]

\* the image reference of the equation of index idx
ImageRefs == <<"#0", "#1", "#2", "#3", "#4", "#5">>
ImageRef(idx) == ImageRefs[idx + 1]

RECURSIVE ReplaceEquations(_, _, _, _)
\* the loop of process_article_equations from index idx on; latex_to_image
\* raises for the equation of index `bad` (-1: for none), which is skipped
ReplaceEquations(acc, eqs, idx, bad) ==
    IF idx >= Len(eqs) THEN acc
    ELSE IF idx = bad THEN ReplaceEquations(acc, eqs, idx + 1, bad)
    ELSE LET e == eqs[idx + 1]
             delim == IF e.mode = "display" THEN <<"$", "$">> ELSE <<"$">>
         IN  ReplaceEquations(
                 [text  |-> ReplaceFirst(acc.text, delim \o e.equation \o delim,
                                         <<ImageRef(idx)>>),
                  count |-> acc.count + 1],
                 eqs, idx + 1, bad)

\* process_article_equations on a text: (modified_content, equation_count)
ProcessEquations(content, bad) ==
    ReplaceEquations([text |-> content, count |-> 0],
                     extract_equations(content), 0, bad)

\* finalize_node calls process_article_equations with the content of the
\* state, a text with math
InitLatex ==
    /\ pc = "idle"
    /\ \E c \in Texts : state = [InitialState EXCEPT !.content = c, !.has_math = TRUE]
    /\ versions = <<>>
    /\ checkpoints = <<>>
    /\ logs = 0
    /\ lastLog = LogRow(InitialState, "structure", 0)
    /\ article = NoRow
    /\ last = Did("", "init", NoScore)
    /\ passTrace = <<>>
    /\ addCount = [v \in ValidatorSet |-> 0]
    /\ faults = 0
    /\ nominal = PUBLISH_THRESHOLD
    /\ ServiceIdle
    /\ nextId = 1

CallProcessEquations ==
    /\ last.node = ""
    /\ \E bad \in -1..(Len(extract_equations(state.content)) - 1) :
           last' = Did("process_article_equations",
                       IF bad = -1 THEN "ok" ELSE "render_fail",
                       ProcessEquations(state.content, bad))
    /\ UNCHANGED <<queue, articles, archive, runs, nextId, calls, reply, sent,
                   active_connections, sockets, faults>>
    /\ UNCHANGED runVars

NextLatex == CallProcessEquations

SpecLatex == InitLatex /\ [][NextLatex]_vars

\* the number of places of text at which the element x stands
Occurrences(text, x) == Cardinality({i \in 1..Len(text) : text[i] = x})

\* C39 as stated, for texts whose equations are not empty: when every image
\* is rendered, process_article_equations
\* replaces each equation that extract_equations finds by an image
\* reference of its own, the count is the number of extracted equations, and
\* extract_equations finds nothing in the returned text; for an inline and a
\* display equation the count is 2
C39_Orig ==
    (/\ last.node = "process_article_equations"
     /\ last.kind = "ok"
     /\ \A n \in 1..Len(extract_equations(state.content)) :
            extract_equations(state.content)[n].equation # <<>>)
       => LET eqs == extract_equations(state.content)
              out == last.judgment
          IN  /\ out.count = Len(eqs)
              /\ \A idx \in 0..(Len(eqs) - 1) : Occurrences(out.text, ImageRef(idx)) = 1
              /\ extract_equations(out.text) = <<>>
              /\ state.content = <<"$", "a", "$", " ", "$", "$", "a", "$", "$">>
                    => out.count = 2

====
